---- MODULE Spec2Model ----
(***************************************************************************)
(* A model of astrodask's FieldContainer (src/src/astrodask/fields.py):    *)
(* one container `self` with its four dictionaries, and a second container *)
(* `collection` that is the argument of merge.  Dictionaries are functions *)
(* whose DOMAIN is the set of keys present.  Every operation of the        *)
(* mapping interface is one action; `last` records the call just made and  *)
(* what it returned or raised.                                             *)
(***************************************************************************)
EXTENDS Integers, FiniteSets, Sequences, TLC

VARIABLES fields, fieldrecipes, containers, aliases, collection, last

vars == <<fields, fieldrecipes, containers, aliases, collection, last>>

----------------------------------------------------------------------------
(* Bounds and input sets *)

MaxVal == 2

\* array values that are assigned to fields or returned by generators
Vals == 1..MaxVal

\* the names used as keys; "uid" is the reserved internal name
Keys == {"a", "uid"}

\* self.internals = ["uid"]
internals == {"uid"}

\* generator functions a recipe may carry: one that returns an array, one
\* that fails with a KeyError (e.g. it reads a missing field), one that
\* fails with another error type
Gens == {"gen_ok", "gen_keyerror", "gen_valueerror"}

\* the supplied default of get(key, value)
Defaults == {0}

\* None, for an argument that is not given
None == "None"

----------------------------------------------------------------------------
(* Dictionaries *)

EmptyDict == [x \in {} |-> 0]

DictSet(d, k, v) == [x \in (DOMAIN d) \cup {k} |-> IF x = k THEN v ELSE d[x]]

DictDel(d, k) == [x \in (DOMAIN d) \ {k} |-> d[x]]

\* dict.update: entries of e are written over those of d
DictUpdate(d, e) ==
    [x \in (DOMAIN d) \cup (DOMAIN e) |-> IF x \in DOMAIN e THEN e[x] ELSE d[x]]

----------------------------------------------------------------------------
(* Values *)

\* FieldContainer(): a container constructed with no fields, no recipes and
\* no children
FieldContainer == [fields |-> EmptyDict, fieldrecipes |-> EmptyDict, containers |-> EmptyDict]

\* a container holding the given fields and recipes
Container(f, r) == [fields |-> f, fieldrecipes |-> r, containers |-> EmptyDict]

\* class FieldType
FieldType == [INTERNAL |-> "INTERNAL", IO |-> "IO", DERIVED |-> "DERIVED"]

\* FieldRecipe(name, func, arr, description, units, ftype): the recipe
\* constructed, or the error raised.  func is a generator or None; arr is
\* <<>> for None and <<v>> for the array v.
FieldRecipe(name, func, arr, description, units, ftype) ==
    IF func = None /\ arr = <<>>
    THEN [raise |-> "ValueError: Need to specify either func or arr."]
    ELSE [type |-> ftype, name |-> name, description |-> description, units |-> units,
          func |-> func, arr |-> arr]

\* DerivedFieldRecipe(name, func, description, units)
DerivedFieldRecipe(name, func, description, units) ==
    FieldRecipe(name, func, <<>>, description, units, FieldType.DERIVED)

\* what an operation returns or raises
RetVal(v) == [kind |-> "value", val |-> v, ref |-> "", set |-> {}]
RetContainer(k) == [kind |-> "container", val |-> 0, ref |-> k, set |-> {}]
RetRaise(e) == [kind |-> "raise", val |-> 0, ref |-> e, set |-> {}]
RetKeys(S) == [kind |-> "keys", val |-> Cardinality(S), ref |-> "", set |-> S]
RetLen(n) == [kind |-> "len", val |-> n, ref |-> "", set |-> {}]
RetNone == [kind |-> "none", val |-> 0, ref |-> "", set |-> {}]
RetBool(b) == [kind |-> "bool", val |-> IF b THEN 1 ELSE 0, ref |-> "", set |-> {}]

\* the errors that Python's `except KeyError` catches
KeyErrors == {"KeyError: Unknown field", "KeyError: is derived", "KeyError"}

\* values assigned by item assignment: an array or a FieldContainer
ArrayValue(v) == [isContainer |-> FALSE, arr |-> v, cont |-> FieldContainer]
ContainerValue(c) == [isContainer |-> TRUE, arr |-> 0, cont |-> c]

ContainerInputs == {FieldContainer, Container(DictSet(EmptyDict, "a", 1), EmptyDict)}

Values == {ArrayValue(v) : v \in Vals} \cup {ContainerValue(c) : c \in ContainerInputs}

\* func(self, **kwargs): the outcomes a generator call can have
Call(func) ==
    CASE func = "gen_ok" -> {RetVal(v) : v \in Vals}
      [] func = "gen_keyerror" -> {RetRaise("KeyError")}
      [] OTHER -> {RetRaise("ValueError")}

----------------------------------------------------------------------------
(* State *)

\* the record of a call: the operation, its arguments, what it returned or
\* raised (ret), and the outcome of the generator call it made, if any
\* (genout).  follows is set on a read that comes right after an array
\* assignment to the same key or right after a deriving item read of it.
Call0 == [op |-> "init", key |-> "", val |-> 0, opts |-> {},
          ret |-> RetNone, genout |-> RetNone, follows |-> ""]

Follows(op, key) ==
    IF /\ op \in {"getitem", "get"}
       /\ last.key = key
       /\ \/ last.op = "setitem" /\ "container" \notin last.opts
          \/ last.op = "getitem" /\ last.genout.kind = "value"
    THEN last.op ELSE ""

Record(op, key, val, opts, ret, genout) ==
    [op |-> op, key |-> key, val |-> val, opts |-> opts, ret |-> ret, genout |-> genout,
     follows |-> Follows(op, key)]

Init ==
    /\ fields = EmptyDict
    /\ fieldrecipes = EmptyDict
    /\ containers = EmptyDict
    /\ aliases = EmptyDict
    /\ collection = FieldContainer
    /\ last = Call0

----------------------------------------------------------------------------
(* Lookup *)

\* ResolveAlias with the substitution repeated on its own result
ResolveAlias_chained(key) ==
    LET k == IF key \in DOMAIN aliases THEN aliases[key] ELSE key
    IN IF k \in DOMAIN aliases THEN aliases[k] ELSE k

\* the alias substitution that opens _getitem
ResolveAlias(key) == IF key \in DOMAIN aliases THEN aliases[key] ELSE key

\* Derive with the result never stored
Derive_nocache(key, update_dict) ==
    {[ret |-> field, fields |-> fields, genout |-> field] : field \in Call(fieldrecipes[key].func)}

\* the derivation branch of _getitem: the generator of the recipe is called,
\* and its result is stored in fields when update_dict is set.  A failure of
\* the generator leaves the lookup by that failure.
Derive(key, update_dict) ==
    {[ret |-> field,
      fields |-> IF field.kind = "value" /\ update_dict
                 THEN DictSet(fields, key, field.val) ELSE fields,
      genout |-> field] : field \in Call(fieldrecipes[key].func)}

\* Lookup with force_derived ignored: a stored field always answers
Lookup_unforced(key, force_derived, update_dict) ==
    IF key \in DOMAIN containers
    THEN {[ret |-> RetContainer(key), fields |-> fields, genout |-> RetNone]}
    ELSE IF key \in DOMAIN fields
    THEN {[ret |-> RetVal(fields[key]), fields |-> fields, genout |-> RetNone]}
    ELSE IF key \in DOMAIN fieldrecipes
    THEN Derive(key, update_dict)
    ELSE {[ret |-> RetRaise("KeyError: Unknown field"), fields |-> fields,
           genout |-> RetNone]}

\* _getitem after the alias substitution: child container, then field, then
\* recipe
Lookup(key, force_derived, update_dict) ==
    IF key \in DOMAIN containers
    THEN {[ret |-> RetContainer(key), fields |-> fields, genout |-> RetNone]}
    ELSE IF key \in DOMAIN fields /\ ~force_derived
    THEN {[ret |-> RetVal(fields[key]), fields |-> fields, genout |-> RetNone]}
    ELSE IF key \in DOMAIN fieldrecipes
    THEN Derive(key, update_dict)
    ELSE {[ret |-> RetRaise("KeyError: Unknown field"), fields |-> fields,
           genout |-> RetNone]}

\* _getitem with the recipe consulted before the stored field
_getitem_recipefirst(key, force_derived, update_dict) ==
    Lookup(ResolveAlias(key), TRUE, update_dict)

\* _getitem with a derived value stored under the key as given, not under
\* the name the alias stands for
_getitem_underalias(key, force_derived, update_dict) ==
    {[ret |-> o.ret,
      fields |-> IF o.genout.kind = "value" /\ update_dict
                 THEN DictSet(fields, key, o.genout.val) ELSE fields,
      genout |-> o.genout] : o \in Lookup(ResolveAlias(key), force_derived, update_dict)}

\* _getitem: the set of outcomes [ret, fields, genout] of a lookup
_getitem(key, force_derived, update_dict) ==
    Lookup(ResolveAlias(key), force_derived, update_dict)

\* get: the set of outcomes of the non-throwing lookup
get(key, value, allow_derived, force_derived) ==
    IF key \in DOMAIN fieldrecipes /\ ~allow_derived
    THEN {[ret |-> RetRaise("KeyError: is derived"), fields |-> fields, genout |-> RetNone]}
    ELSE {[ret |-> IF o.ret.kind = "raise" /\ o.ret.ref \in KeyErrors
                   THEN RetVal(value) ELSE o.ret,
           fields |-> o.fields,
           genout |-> o.genout] : o \in _getitem(key, force_derived, FALSE)}

GetOpts(allow_derived, force_derived) ==
    (IF allow_derived THEN {"allow_derived"} ELSE {})
        \cup (IF force_derived THEN {"force_derived"} ELSE {})

\* C[key]
GetItem(key) ==
    \E o \in _getitem(key, FALSE, TRUE) :
        /\ fields' = o.fields
        /\ last' = Record("getitem", key, 0, {"allow_derived"}, o.ret, o.genout)
        /\ UNCHANGED <<fieldrecipes, containers, aliases, collection>>

\* C._getitem(key, force_derived=True)
GetItemForced(key) ==
    \E o \in _getitem(key, TRUE, TRUE) :
        /\ fields' = o.fields
        /\ last' = Record("_getitem", key, 0, {"allow_derived", "force_derived"},
                          o.ret, o.genout)
        /\ UNCHANGED <<fieldrecipes, containers, aliases, collection>>

\* C.get(key, value, allow_derived, force_derived)
Get(key, value, allow_derived, force_derived) ==
    \E o \in get(key, value, allow_derived, force_derived) :
        /\ fields' = o.fields
        /\ last' = Record("get", key, value, GetOpts(allow_derived, force_derived),
                          o.ret, o.genout)
        /\ UNCHANGED <<fieldrecipes, containers, aliases, collection>>

----------------------------------------------------------------------------
(* Writes *)

\* __setitem__ that keeps the value a field already has
__setitem__keep(key, value) ==
    /\ IF value.isContainer
       THEN /\ containers' = DictSet(containers, key, value.cont)
            /\ UNCHANGED fields
       ELSE /\ fields' = IF key \in DOMAIN fields THEN fields
                         ELSE DictSet(fields, key, value.arr)
            /\ UNCHANGED containers
    /\ last' = Record("setitem", key, value.arr,
                      IF value.isContainer THEN {"container"} ELSE {}, RetNone, RetNone)
    /\ UNCHANGED <<fieldrecipes, aliases, collection>>

\* C[key] = value
__setitem__(key, value) ==
    /\ IF value.isContainer
       THEN /\ containers' = DictSet(containers, key, value.cont)
            /\ UNCHANGED fields
       ELSE /\ fields' = DictSet(fields, key, value.arr)
            /\ UNCHANGED containers
    /\ last' = Record("setitem", key, value.arr,
                      IF value.isContainer THEN {"container"} ELSE {}, RetNone, RetNone)
    /\ UNCHANGED <<fieldrecipes, aliases, collection>>

\* C.new_container(key)
new_container(key) ==
    /\ containers' = DictSet(containers, key, FieldContainer)
    /\ last' = Record("new_container", key, 0, {}, RetNone, RetNone)
    /\ UNCHANGED <<fields, fieldrecipes, aliases, collection>>

\* C.add_alias(alias, name)
add_alias(alias, name) ==
    /\ aliases' = DictSet(aliases, alias, name)
    /\ last' = Record("add_alias", alias, 0, {}, RetNone, RetNone)
    /\ UNCHANGED <<fields, fieldrecipes, containers, collection>>

\* C.register_field(name=name)(func): the recipe goes to the container itself
register_field(name, func) ==
    /\ fieldrecipes' = DictSet(fieldrecipes, name, DerivedFieldRecipe(name, func, "", None))
    /\ last' = Record("register_field", name, 0, {}, RetNone, RetNone)
    /\ UNCHANGED <<fields, containers, aliases, collection>>

\* __delitem__ that looks at fields first and removes nothing when it fails
__delitem__checked(key) ==
    IF key \in DOMAIN fields
    THEN [fieldrecipes |-> DictDel(fieldrecipes, key), fields |-> DictDel(fields, key),
          ret |-> RetNone]
    ELSE [fieldrecipes |-> fieldrecipes, fields |-> fields, ret |-> RetRaise("KeyError")]

\* __delitem__: the dictionaries after `del C[key]` and whether it raised
__delitem__(key) ==
    LET recipes1 == IF key \in DOMAIN fieldrecipes
                    THEN DictDel(fieldrecipes, key) ELSE fieldrecipes IN
    IF key \in DOMAIN fields
    THEN [fieldrecipes |-> recipes1, fields |-> DictDel(fields, key), ret |-> RetNone]
    ELSE [fieldrecipes |-> recipes1, fields |-> fields, ret |-> RetRaise("KeyError")]

\* del C[key]
DelItem(key) ==
    LET o == __delitem__(key) IN
        /\ fields' = o.fields
        /\ fieldrecipes' = o.fieldrecipes
        /\ last' = Record("delitem", key, 0,
                          IF key \in DOMAIN fieldrecipes THEN {"had recipe"} ELSE {},
                          o.ret, RetNone)
        /\ UNCHANGED <<containers, aliases, collection>>

----------------------------------------------------------------------------
(* Enumeration *)

\* keys(withgroups, withrecipes, withinternal), as a set
keys(withgroups, withrecipes, withinternal) ==
    LET fieldkeys0 == IF withinternal THEN DOMAIN fields ELSE (DOMAIN fields) \ internals
        fieldkeys == IF withrecipes THEN fieldkeys0 \cup DOMAIN fieldrecipes ELSE fieldkeys0
    IN IF withgroups THEN fieldkeys \cup DOMAIN containers ELSE fieldkeys

KeysOpts(withgroups, withrecipes, withinternal) ==
    (IF withgroups THEN {"withgroups"} ELSE {})
        \cup (IF withrecipes THEN {"withrecipes"} ELSE {})
        \cup (IF withinternal THEN {"withinternal"} ELSE {})

\* C.keys(...) and iteration over C
KeysCall(withgroups, withrecipes, withinternal) ==
    /\ last' = Record("keys", "", 0, KeysOpts(withgroups, withrecipes, withinternal),
                      RetKeys(keys(withgroups, withrecipes, withinternal)), RetNone)
    /\ UNCHANGED <<fields, fieldrecipes, containers, aliases, collection>>

\* __len__
__len__ == Cardinality(keys(TRUE, TRUE, FALSE))

\* len(C)
LenCall ==
    /\ last' = Record("len", "", 0, {"withgroups", "withrecipes"}, RetLen(__len__), RetNone)
    /\ UNCHANGED <<fields, fieldrecipes, containers, aliases, collection>>

\* Contains with the answer read off the dictionaries, no item read made
Contains_pure(key) ==
    /\ last' = Record("contains", key, 0, {},
                      RetBool(ResolveAlias(key) \in keys(TRUE, TRUE, TRUE)), RetNone)
    /\ UNCHANGED <<fields, fieldrecipes, containers, aliases, collection>>

\* key in C: the membership test MutableMapping inherits from Mapping makes
\* the item read C[key] and answers False when that raises KeyError
Contains(key) ==
    \E o \in _getitem(key, FALSE, TRUE) :
        /\ fields' = o.fields
        /\ last' = Record("contains", key, 0, {},
                          IF o.ret.kind = "raise"
                          THEN IF o.ret.ref \in KeyErrors THEN RetBool(FALSE) ELSE o.ret
                          ELSE RetBool(TRUE),
                          o.genout)
        /\ UNCHANGED <<fieldrecipes, containers, aliases, collection>>

----------------------------------------------------------------------------
(* Merge *)

\* update in which the entries c1 already has are kept
update_keep(c1, c2) ==
    [c1 EXCEPT !.fields = DictUpdate(c2.fields, c1.fields),
               !.fieldrecipes = DictUpdate(c2.fieldrecipes, c1.fieldrecipes)]

\* c1 after c1.fields.update(**c2.fields) and
\* c1.fieldrecipes.update(**c2.fieldrecipes)
update(c1, c2) ==
    [c1 EXCEPT !.fields = DictUpdate(c1.fields, c2.fields),
               !.fieldrecipes = DictUpdate(c1.fieldrecipes, c2.fieldrecipes)]

\* merge that copies into self's children whatever overwrite is
merge_overwriting(overwrite) ==
    LET theirs == collection.containers
        mine == [k \in (DOMAIN containers) \cup (DOMAIN theirs) |->
                    IF k \in DOMAIN containers THEN containers[k] ELSE FieldContainer]
    IN [containers |->
            [k \in DOMAIN mine |->
                IF k \in DOMAIN theirs THEN update(mine[k], theirs[k]) ELSE mine[k]],
        collection |-> collection]

\* merge(collection, overwrite): the children of self and of collection
\* after the loop over collection.containers
merge(overwrite) ==
    LET theirs == collection.containers
        \* self.containers once every missing child has been created
        mine == [k \in (DOMAIN containers) \cup (DOMAIN theirs) |->
                    IF k \in DOMAIN containers THEN containers[k] ELSE FieldContainer]
    IN [containers |->
            [k \in DOMAIN mine |->
                IF overwrite /\ k \in DOMAIN theirs
                THEN update(mine[k], theirs[k]) ELSE mine[k]],
        collection |->
            [collection EXCEPT !.containers =
                [k \in DOMAIN theirs |->
                    IF overwrite THEN theirs[k] ELSE update(theirs[k], mine[k])]]]

\* the number of (child, key) pairs for which self's child and collection's
\* child of the same name both hold a field, with different values
Collisions ==
    Cardinality({ck \in Keys \X Keys :
        /\ ck[1] \in (DOMAIN containers) \cap (DOMAIN collection.containers)
        /\ ck[2] \in (DOMAIN containers[ck[1]].fields)
                        \cap (DOMAIN collection.containers[ck[1]].fields)
        /\ containers[ck[1]].fields[ck[2]] # collection.containers[ck[1]].fields[ck[2]]})

\* C.merge(collection, overwrite)
Merge(overwrite) ==
    LET o == merge(overwrite) IN
        /\ containers' = o.containers
        /\ collection' = o.collection
        /\ last' = Record("merge", "", Collisions, IF overwrite THEN {"overwrite"} ELSE {},
                          RetNone, RetNone)
        /\ UNCHANGED <<fields, fieldrecipes, aliases>>

\* C.merge(x) with x not a FieldContainer
MergeOther ==
    /\ last' = Record("merge", "", 0, {"not a FieldContainer"}, RetRaise("TypeError"), RetNone)
    /\ UNCHANGED <<fields, fieldrecipes, containers, aliases, collection>>

----------------------------------------------------------------------------
(* Specification *)

Next ==
    \/ \E key \in Keys : GetItem(key)
    \/ \E key \in Keys : GetItemForced(key)
    \/ \E key \in Keys, value \in Defaults, allow_derived \in BOOLEAN, force_derived \in BOOLEAN :
            Get(key, value, allow_derived, force_derived)
    \/ \E key \in Keys, value \in Values : __setitem__(key, value)
    \/ \E key \in Keys : new_container(key)
    \/ \E alias \in Keys, name \in Keys : add_alias(alias, name)
    \/ \E name \in Keys, func \in Gens : register_field(name, func)
    \/ \E key \in Keys : DelItem(key)
    \/ \E key \in Keys : Contains(key)
    \/ \E withgroups \in BOOLEAN, withrecipes \in BOOLEAN, withinternal \in BOOLEAN :
            KeysCall(withgroups, withrecipes, withinternal)
    \/ LenCall

Spec == Init /\ [][Next]_vars

----------------------------------------------------------------------------
(* Vocabulary of the claims *)

\* the name a key stands for after one alias substitution
Resolved(key) == IF key \in DOMAIN aliases THEN aliases[key] ELSE key

\* a non-forced read with derivation allowed: C[key] or C.get(key, value)
PlainRead(call) ==
    \/ call.op = "getitem"
    \/ call.op = "get" /\ call.opts = {"allow_derived"}

\* the name has a recipe and no materialized field (and no child container
\* hides it)
RecipeOnly(name) ==
    /\ name \in DOMAIN fieldrecipes
    /\ name \notin DOMAIN fields
    /\ name \notin DOMAIN containers

----------------------------------------------------------------------------
(* C1: derivation caching *)

----------------------------------------------------------------------------
(* C2: a stored field wins over a recipe of the same name *)

\* C2 as stated: a non-forced read of a key present in both fields and
\* fieldrecipes returns the value stored in fields under that key and invokes
\* no generator.  (Stated for the states in which no child container has the
\* name of a field, so that a violation does not rest on what C4 is about.)
C2_StoredFieldOfKey ==
    [][(/\ PlainRead(last')
        /\ (DOMAIN fields) \cap (DOMAIN containers) = {}
        /\ last'.key \in (DOMAIN fields) \cap (DOMAIN fieldrecipes))
       => /\ last'.ret = RetVal(fields[last'.key])
          /\ last'.genout = RetNone]_vars

\* C2 amended: the precedence applies to the alias-resolved name.  When the
\* name a key resolves to is present in both fields and fieldrecipes, a
\* non-forced read invokes no generator and returns the child container of
\* that name if there is one, and else the value stored in fields under it.
C2_StoredFieldOfResolved ==
    [][(/\ PlainRead(last')
        /\ Resolved(last'.key) \in (DOMAIN fields) \cap (DOMAIN fieldrecipes))
       => /\ last'.genout = RetNone
          /\ last'.ret = IF Resolved(last'.key) \in DOMAIN containers
                         THEN RetContainer(Resolved(last'.key))
                         ELSE RetVal(fields[Resolved(last'.key)])]_vars

\* a read through an alias of a name that has a field and a recipe, answered
\* from fields
C2_Witness ==
    /\ PlainRead(last)
    /\ last.key \in DOMAIN aliases
    /\ Resolved(last.key) # last.key
    /\ Resolved(last.key) \in (DOMAIN fields) \cap (DOMAIN fieldrecipes)
    /\ Resolved(last.key) \notin DOMAIN containers
    /\ last.genout = RetNone
    /\ last.ret = RetVal(fields[Resolved(last.key)])

----------------------------------------------------------------------------
(* C3: assignment followed by a read *)

\* C3 as stated: after C[k] = v with v an array, a read of k returns v, also
\* when k is registered as an alias.  (Stated for the states in which no
\* child container has the name of a field, so that a violation does not
\* rest on what C4 is about.)
C3_SetThenGet ==
    [][(/\ last.op = "setitem"
        /\ "container" \notin last.opts
        /\ (DOMAIN fields) \cap (DOMAIN containers) = {}
        /\ PlainRead(last')
        /\ last'.key = last.key)
       => last'.ret = RetVal(last.val)]_vars

\* C3 amended: after C[k] = v with v an array, a non-forced read of k
\* returns v when k is not an alias for another name and does not name a
\* child container.  A child container of the resolved name is returned in
\* place of v, and when k is an alias for another name the read is that of
\* the other name.
C3_SetThenGetResolved ==
    [][(/\ last.op = "setitem"
        /\ "container" \notin last.opts
        /\ PlainRead(last')
        /\ last'.key = last.key)
       => LET r == Resolved(last.key) IN
          /\ r \in DOMAIN containers => last'.ret = RetContainer(r)
          /\ (r \notin DOMAIN containers /\ r = last.key)
                => last'.ret = RetVal(last.val) /\ last'.genout = RetNone
          /\ (r \notin DOMAIN containers /\ r # last.key /\ r \in DOMAIN fields)
                => last'.ret = RetVal(fields[r])]_vars

\* a read that follows an assignment to the same key and returns the value
\* assigned, the key having a recipe as well
C3_Witness ==
    /\ PlainRead(last)
    /\ last.follows = "setitem"
    /\ last.key \notin DOMAIN aliases
    /\ last.key \notin DOMAIN containers
    /\ last.key \in DOMAIN fieldrecipes
    /\ last.ret = RetVal(fields[last.key])

----------------------------------------------------------------------------
(* C4: fields and child containers *)

\* C4: no name is a key of fields and the name of a child container at the
\* same time.
C4_FieldsAndContainersDisjoint == (DOMAIN fields) \cap (DOMAIN containers) = {}

----------------------------------------------------------------------------
(* C5: merge with overwrite *)

\* the children both containers have
Shared == (DOMAIN containers) \cap (DOMAIN collection.containers)

\* C5 as stated: after merge(collection, overwrite=True), for a child both
\* containers have, self's child keeps its own entry for every key both
\* children define, and has collection's entry for every key that only
\* collection's child defines.
C5_SelfWins ==
    [][(last'.op = "merge" /\ "overwrite" \in last'.opts)
       => \A c \in Shared :
            LET mine == containers[c]
                theirs == collection.containers[c]
                new == containers'[c]
            IN /\ \A a \in (DOMAIN mine.fields) \cap (DOMAIN theirs.fields) :
                    new.fields[a] = mine.fields[a]
               /\ \A a \in (DOMAIN mine.fieldrecipes) \cap (DOMAIN theirs.fieldrecipes) :
                    new.fieldrecipes[a] = mine.fieldrecipes[a]
               /\ \A a \in (DOMAIN theirs.fields) \ (DOMAIN mine.fields) :
                    new.fields[a] = theirs.fields[a]
               /\ \A a \in (DOMAIN theirs.fieldrecipes) \ (DOMAIN mine.fieldrecipes) :
                    new.fieldrecipes[a] = theirs.fieldrecipes[a]]_vars

\* C5 amended: after merge(collection, overwrite=True), for a child both
\* containers have, self's child holds collection's entry for every key that
\* collection's child defines (collection's entries win on collision), keeps
\* its own entry for the keys only it defines, and has no other key.
C5_OtherWins ==
    [][(last'.op = "merge" /\ "overwrite" \in last'.opts)
       => \A c \in Shared :
            LET mine == containers[c]
                theirs == collection.containers[c]
                new == containers'[c]
            IN /\ DOMAIN new.fields = (DOMAIN mine.fields) \cup (DOMAIN theirs.fields)
               /\ DOMAIN new.fieldrecipes
                    = (DOMAIN mine.fieldrecipes) \cup (DOMAIN theirs.fieldrecipes)
               /\ \A a \in DOMAIN theirs.fields : new.fields[a] = theirs.fields[a]
               /\ \A a \in DOMAIN theirs.fieldrecipes :
                    new.fieldrecipes[a] = theirs.fieldrecipes[a]
               /\ \A a \in (DOMAIN mine.fields) \ (DOMAIN theirs.fields) :
                    new.fields[a] = mine.fields[a]
               /\ \A a \in (DOMAIN mine.fieldrecipes) \ (DOMAIN theirs.fieldrecipes) :
                    new.fieldrecipes[a] = mine.fieldrecipes[a]]_vars

\* a merge with overwrite came upon a field both children define with
\* different values, and self's child now holds collection's value; the
\* child also kept a key that only it defined
C5_Witness ==
    /\ last.op = "merge"
    /\ "overwrite" \in last.opts
    /\ last.val > 0
    /\ \E c \in Shared :
        /\ \E a \in DOMAIN collection.containers[c].fields :
                containers[c].fields[a] = collection.containers[c].fields[a]
        /\ (DOMAIN containers[c].fields) \ (DOMAIN collection.containers[c].fields) # {}

----------------------------------------------------------------------------
(* C6: failures of a generator *)

\* C6: a failure raised by a generator is what the read raises, for C[k] and
\* for get alike; and a non-forced get with derivation allowed returns the
\* supplied default only when the resolved key matches no child container,
\* field or recipe.
C6_GeneratorFailurePropagates ==
    [][/\ (last'.op \in {"getitem", "get"} /\ last'.genout.kind = "raise")
          => last'.ret = last'.genout
       /\ (/\ last'.op = "get"
           /\ last'.opts = {"allow_derived"}
           /\ last'.ret = RetVal(last'.val))
          => Resolved(last'.key) \notin
                (DOMAIN containers) \cup (DOMAIN fields) \cup (DOMAIN fieldrecipes)]_vars

----------------------------------------------------------------------------
(* C7: get with allow_derived=False *)

\* C7: get(k, allow_derived=False) raises the derived-field error exactly
\* when the resolved key has a recipe and no field (nor child container);
\* when the resolved key has a field, a non-forced get returns it.
C7_ForbidsRecipeOnly ==
    [][(last'.op = "get" /\ "allow_derived" \notin last'.opts)
       => LET r == Resolved(last'.key) IN
          /\ last'.ret = RetRaise("KeyError: is derived") <=> RecipeOnly(r)
          /\ (/\ r \in DOMAIN fields
              /\ r \notin DOMAIN containers
              /\ "force_derived" \notin last'.opts)
             => last'.ret = RetVal(fields[r])]_vars

----------------------------------------------------------------------------
(* C8: one alias substitution *)

\* C8: a non-forced read of a key A that is registered as an alias A -> B is
\* the lookup of B as a plain name: the child container B, else the field B
\* (no generator invoked), else the derivation of recipe B, else key-not-found
\* (the default, for get).  What B is an alias for plays no part.
C8_AliasSingleHop ==
    [][(PlainRead(last') /\ last'.key \in DOMAIN aliases)
       => LET B == aliases[last'.key] IN
          /\ B \in DOMAIN containers => last'.ret = RetContainer(B)
          /\ (B \notin DOMAIN containers /\ B \in DOMAIN fields)
             => last'.ret = RetVal(fields[B]) /\ last'.genout = RetNone
          /\ (B \notin DOMAIN containers /\ B \notin DOMAIN fields
                /\ B \in DOMAIN fieldrecipes)
             => /\ last'.genout \in Call(fieldrecipes[B].func)
                /\ last'.op = "getitem" => last'.ret = last'.genout
          /\ (B \notin DOMAIN containers /\ B \notin DOMAIN fields
                /\ B \notin DOMAIN fieldrecipes)
             => /\ last'.genout = RetNone
                /\ last'.ret = IF last'.op = "getitem"
                               THEN RetRaise("KeyError: Unknown field")
                               ELSE RetVal(last'.val)]_vars

\* a read of A with A -> B and B -> A, both fields, with different values:
\* the read returned field B
C8_Witness ==
    /\ PlainRead(last)
    /\ last.key \in DOMAIN aliases
    /\ aliases[last.key] \in DOMAIN aliases
    /\ aliases[aliases[last.key]] # aliases[last.key]
    /\ DOMAIN containers = {}
    /\ aliases[last.key] \in DOMAIN fields
    /\ aliases[aliases[last.key]] \in DOMAIN fields
    /\ fields[aliases[aliases[last.key]]] # fields[aliases[last.key]]
    /\ last.ret = RetVal(fields[aliases[last.key]])

----------------------------------------------------------------------------
(* C9: deletion *)

\* C9: del C[k] removes k from fields and from fieldrecipes when k is in
\* fields; when k is not in fields it raises key-not-found, having removed
\* the recipe of k all the same.  No other field or recipe, no alias and no
\* child container is changed.
C9_Delete ==
    [][last'.op = "delitem"
       => LET k == last'.key IN
          /\ k \in DOMAIN fields
             => /\ last'.ret = RetNone
                /\ DOMAIN fields' = (DOMAIN fields) \ {k}
          /\ k \notin DOMAIN fields
             => /\ last'.ret = RetRaise("KeyError")
                /\ DOMAIN fields' = DOMAIN fields
          /\ DOMAIN fieldrecipes' = (DOMAIN fieldrecipes) \ {k}
          /\ \A j \in DOMAIN fields' : fields'[j] = fields[j]
          /\ \A j \in DOMAIN fieldrecipes' : fieldrecipes'[j] = fieldrecipes[j]
          /\ aliases' = aliases
          /\ containers' = containers]_vars

\* a deletion that raised, of a key that had a recipe and no field and that
\* is an alias and a child container name: the recipe is gone, the alias and
\* the child are still there
C9_Witness ==
    /\ last.op = "delitem"
    /\ last.ret = RetRaise("KeyError")
    /\ "had recipe" \in last.opts
    /\ last.key \notin DOMAIN fieldrecipes
    /\ last.key \in DOMAIN aliases
    /\ last.key \in DOMAIN containers

----------------------------------------------------------------------------
(* C10: enumeration *)

\* C10: keys() with default options is the union of the field names, recipe
\* names and child container names without the internal names, and len is
\* the size of that set.
C10_KeysWithoutInternals ==
    LET expected == ((DOMAIN fields) \cup (DOMAIN fieldrecipes) \cup (DOMAIN containers))
                        \ internals
    IN /\ (last.op = "keys" /\ last.opts = {"withgroups", "withrecipes"})
            => last.ret.set = expected
       /\ last.op = "len" => last.ret.val = Cardinality(expected)

----------------------------------------------------------------------------
(* C15: an item read that derives *)

\* the reads
ReadOps == {"getitem", "_getitem", "get", "contains", "keys", "len"}

\* C15 as stated: an item read C[k] whose resolved name r has a recipe and
\* no field invokes the generator, stores its result in fields under r and
\* nowhere else, returns it, and keeps the recipe; no read removes a recipe.
C15_DerivesUnderResolved ==
    [][/\ (/\ last'.op = "getitem"
           /\ Resolved(last'.key) \in DOMAIN fieldrecipes
           /\ Resolved(last'.key) \notin DOMAIN fields)
          => /\ last'.genout # RetNone
             /\ last'.genout.kind = "value"
                    => /\ fields' = DictSet(fields, Resolved(last'.key), last'.genout.val)
                       /\ last'.ret = last'.genout
       /\ last'.op \in ReadOps => fieldrecipes' = fieldrecipes]_vars

\* C15 amended: the same for a resolved name r that has a recipe, no field
\* and no child container; when a child container is named r the read
\* returns that child and no generator is invoked.
C15_DerivesUnderResolvedNoChild ==
    [][/\ (last'.op = "getitem" /\ RecipeOnly(Resolved(last'.key)))
          => /\ last'.genout # RetNone
             /\ last'.genout \in Call(fieldrecipes[Resolved(last'.key)].func)
             /\ last'.ret = last'.genout
             /\ fields' = IF last'.genout.kind = "value"
                          THEN DictSet(fields, Resolved(last'.key), last'.genout.val)
                          ELSE fields
       /\ (last'.op = "getitem" /\ Resolved(last'.key) \in DOMAIN containers)
          => /\ last'.genout = RetNone
             /\ last'.ret = RetContainer(Resolved(last'.key))
             /\ fields' = fields
       /\ last'.op \in ReadOps => fieldrecipes' = fieldrecipes]_vars

\* an item read through an alias has derived: the value is under the
\* resolved name, the alias itself is no field, the recipe is still there
C15_Witness ==
    /\ last.op = "getitem"
    /\ last.key \in DOMAIN aliases
    /\ aliases[last.key] # last.key
    /\ last.genout.kind = "value"
    /\ aliases[last.key] \in DOMAIN fields
    /\ fields[aliases[last.key]] = last.genout.val
    /\ last.key \notin DOMAIN fields
    /\ aliases[last.key] \in DOMAIN fieldrecipes

----------------------------------------------------------------------------
(* C17: forced derivation *)

\* a forced read with derivation allowed: C.get(key, force_derived=True) or
\* C._getitem(key, force_derived=True)
ForcedRead(call) ==
    /\ call.op \in {"get", "_getitem"}
    /\ {"allow_derived", "force_derived"} \subseteq call.opts

\* C17: a forced read skips only the stored field.  The alias is
\* substituted and a child container of the resolved name is returned
\* without a generator call; otherwise, when the resolved name has a recipe,
\* the generator is invoked whether or not fields holds a value, and the
\* value it returns is what the read returns; when the resolved name has no
\* recipe the read is a key-not-found even if fields holds a value (get
\* returns the default).
C17_ForcedRead ==
    [][ForcedRead(last') =>
        LET r == Resolved(last'.key) IN
        IF r \in DOMAIN containers
        THEN last'.ret = RetContainer(r) /\ last'.genout = RetNone
        ELSE IF r \in DOMAIN fieldrecipes
        THEN /\ last'.genout \in Call(fieldrecipes[r].func)
             /\ last'.genout.kind = "value" => last'.ret = last'.genout
        ELSE /\ last'.genout = RetNone
             /\ last'.ret = IF last'.op = "get" THEN RetVal(last'.val)
                            ELSE RetRaise("KeyError: Unknown field")]_vars

\* a forced get of a name that has a field and a recipe returned the
\* generator's value, which is not the stored one
C17_Witness ==
    /\ ForcedRead(last)
    /\ last.op = "get"
    /\ Resolved(last.key) \in DOMAIN fields
    /\ Resolved(last.key) \notin DOMAIN containers
    /\ last.genout.kind = "value"
    /\ last.ret = last.genout
    /\ fields[Resolved(last.key)] # last.ret.val

----------------------------------------------------------------------------
(* C20: the membership test *)

\* C20: key in C is answered by an item read.  For a key whose resolved
\* name has only a recipe the generator is invoked; a value it returns is
\* stored in fields under the resolved name and the answer is True, a
\* KeyError it raises makes the answer False.  The answer is True for an
\* alias of a stored field or of a child container, a name keys() does not
\* list.  keys(), iteration and len invoke no generator and change nothing.
C20_MembershipIsAnItemRead ==
    [][/\ last'.op = "contains" =>
            LET r == Resolved(last'.key) IN
            /\ RecipeOnly(r)
                => /\ last'.genout \in Call(fieldrecipes[r].func)
                   /\ last'.genout.kind = "value"
                        => /\ fields' = DictSet(fields, r, last'.genout.val)
                           /\ last'.ret = RetBool(TRUE)
                   /\ last'.genout = RetRaise("KeyError") => last'.ret = RetBool(FALSE)
            /\ r \in (DOMAIN fields) \cup (DOMAIN containers)
                => /\ last'.ret = RetBool(TRUE)
                   /\ last'.genout = RetNone
                   /\ fields' = fields
            /\ r \notin keys(TRUE, TRUE, TRUE)
                => /\ last'.ret = RetBool(FALSE)
                   /\ fields' = fields
       /\ last'.op \in {"keys", "len"}
            => /\ last'.genout = RetNone
               /\ UNCHANGED <<fields, fieldrecipes, containers, aliases>>
       /\ last'.op = "keys" =>
            last'.ret.set \subseteq (DOMAIN fields) \cup (DOMAIN fieldrecipes)
                                        \cup (DOMAIN containers)]_vars

\* a membership test of an alias that keys() does not list answered True,
\* after invoking the generator of the name the alias stands for, and the
\* value is now in fields
C20_Witness ==
    /\ last.op = "contains"
    /\ last.ret = RetBool(TRUE)
    /\ last.genout.kind = "value"
    /\ last.key \in DOMAIN aliases
    /\ last.key \notin keys(TRUE, TRUE, TRUE)
    /\ aliases[last.key] \in DOMAIN fields
    /\ fields[aliases[last.key]] = last.genout.val

----------------------------------------------------------------------------
(* Specification of merge: two containers whose children hold entries *)

\* the children the two containers start with
ChildInputs ==
    {FieldContainer,
     Container(DictSet(EmptyDict, "a", 1), EmptyDict),
     Container(DictSet(DictSet(EmptyDict, "a", MaxVal), "uid", 1),
               DictSet(EmptyDict, "a", DerivedFieldRecipe("a", "gen_ok", "", None))),
     Container(DictSet(EmptyDict, "uid", MaxVal),
               DictSet(DictSet(EmptyDict, "a", DerivedFieldRecipe("a", "gen_keyerror", "", None)),
                       "uid", DerivedFieldRecipe("uid", "gen_ok", "", None))),
     [fields |-> DictSet(EmptyDict, "a", 1), fieldrecipes |-> EmptyDict,
      containers |-> DictSet(EmptyDict, "a", FieldContainer)]}

\* every dictionary from a subset of Keys to ChildInputs
ChildDicts == UNION {[S -> ChildInputs] : S \in SUBSET Keys}

InitMerge ==
    /\ fields \in {EmptyDict, DictSet(EmptyDict, "a", 1)}
    /\ fieldrecipes \in {EmptyDict,
                         DictSet(EmptyDict, "a", DerivedFieldRecipe("a", "gen_ok", "", None))}
    /\ aliases \in {EmptyDict, DictSet(EmptyDict, "uid", "a")}
    /\ containers \in ChildDicts
    /\ collection \in {[FieldContainer EXCEPT !.containers = d] : d \in ChildDicts}
    /\ last = Call0

NextMerge ==
    \/ \E overwrite \in BOOLEAN : Merge(overwrite)
    \/ MergeOther

SpecMerge == InitMerge /\ [][NextMerge]_vars

----------------------------------------------------------------------------
(* C19: merge without overwrite *)

\* C19: merge(collection, overwrite=False) leaves every child self already
\* has as it is and creates an empty child for each child name of collection
\* that self lacks; the entries of self's child are copied into collection's
\* child of the same name, self's entry replacing collection's on collision.
\* With either value of overwrite, self's fields, recipes and aliases and
\* the children of self's children are unchanged, and every child name of
\* collection is a child name of self afterwards.
C19_MergeWithoutOverwrite ==
    [][/\ (last'.op = "merge" /\ last'.opts = {})
          => /\ DOMAIN containers' = (DOMAIN containers) \cup (DOMAIN collection.containers)
             /\ \A c \in DOMAIN containers : containers'[c] = containers[c]
             /\ \A c \in (DOMAIN containers') \ (DOMAIN containers) :
                    containers'[c] = FieldContainer
             /\ DOMAIN collection'.containers = DOMAIN collection.containers
             /\ \A c \in DOMAIN collection.containers :
                    LET mine == containers'[c]
                        theirs == collection.containers[c]
                        new == collection'.containers[c]
                    IN /\ DOMAIN new.fields = (DOMAIN mine.fields) \cup (DOMAIN theirs.fields)
                       /\ DOMAIN new.fieldrecipes
                            = (DOMAIN mine.fieldrecipes) \cup (DOMAIN theirs.fieldrecipes)
                       /\ \A a \in DOMAIN mine.fields : new.fields[a] = mine.fields[a]
                       /\ \A a \in DOMAIN mine.fieldrecipes :
                            new.fieldrecipes[a] = mine.fieldrecipes[a]
                       /\ \A a \in (DOMAIN theirs.fields) \ (DOMAIN mine.fields) :
                            new.fields[a] = theirs.fields[a]
                       /\ \A a \in (DOMAIN theirs.fieldrecipes) \ (DOMAIN mine.fieldrecipes) :
                            new.fieldrecipes[a] = theirs.fieldrecipes[a]
       /\ (last'.op = "merge" /\ last'.ret = RetNone)
          => /\ fields' = fields
             /\ fieldrecipes' = fieldrecipes
             /\ aliases' = aliases
             /\ \A c \in DOMAIN containers : containers'[c].containers = containers[c].containers
             /\ DOMAIN collection'.containers \subseteq DOMAIN containers'
             /\ DOMAIN collection.containers \subseteq DOMAIN containers']_vars

\* a merge without overwrite came upon a field both children define with
\* different values and created a child self lacked: collection's child now
\* holds self's value, and self has an empty child
C19_Witness ==
    /\ last.op = "merge"
    /\ last.opts = {}
    /\ last.val > 0
    /\ \E c \in Shared :
            \E a \in DOMAIN containers[c].fields :
                collection.containers[c].fields[a] = containers[c].fields[a]
    /\ \E c \in Shared :
            /\ containers[c] = FieldContainer
            /\ collection.containers[c] # FieldContainer

----------------------------------------------------------------------------
(* Specification of recipe construction *)

\* the arguments recipes are constructed with
RecipeFuncs == Gens \cup {None}
RecipeArrs == {<<>>} \cup {<<v>> : v \in Vals}
RecipeTexts == {"", "text"}
RecipeUnits == {None, "cm"}
RecipeTypes == {FieldType.INTERNAL, FieldType.IO, FieldType.DERIVED}

\* FieldRecipe(name, func=func, arr=arr, description=..., units=..., ftype=ftype)
NewFieldRecipe(name, func, arr, description, units, ftype) ==
    /\ last' = Record("FieldRecipe", name, [func |-> func, arr |-> arr], {},
                      FieldRecipe(name, func, arr, description, units, ftype), RetNone)
    /\ UNCHANGED <<fields, fieldrecipes, containers, aliases, collection>>

\* DerivedFieldRecipe(name, func, description=..., units=...)
NewDerivedFieldRecipe(name, func, description, units) ==
    /\ last' = Record("DerivedFieldRecipe", name, [func |-> func, arr |-> <<>>], {},
                      DerivedFieldRecipe(name, func, description, units), RetNone)
    /\ UNCHANGED <<fields, fieldrecipes, containers, aliases, collection>>

NextRecipe ==
    \/ \E name \in Keys, func \in RecipeFuncs, arr \in RecipeArrs,
          description \in RecipeTexts, units \in RecipeUnits, ftype \in RecipeTypes :
            NewFieldRecipe(name, func, arr, description, units, ftype)
    \/ \E name \in Keys, func \in RecipeFuncs,
          description \in RecipeTexts, units \in RecipeUnits :
            NewDerivedFieldRecipe(name, func, description, units)

SpecRecipe == Init /\ [][NextRecipe]_vars

----------------------------------------------------------------------------
(* C13: recipe construction *)

\* the construction just made raised
Raised == "raise" \in DOMAIN last.ret

\* C13: a FieldRecipe is constructed exactly when one of func and arr, and
\* not the other, is supplied, and then it holds what was supplied; a
\* DerivedFieldRecipe that is constructed has type DERIVED, a generator and
\* no array.
C13_ExactlyOneOfFuncAndArr ==
    /\ last.op = "FieldRecipe"
        => /\ ~Raised <=> ((last.val.func = None) # (last.val.arr = <<>>))
           /\ ~Raised => (last.ret.func = last.val.func /\ last.ret.arr = last.val.arr)
    /\ (last.op = "DerivedFieldRecipe" /\ ~Raised)
        => /\ last.ret.type = FieldType.DERIVED
           /\ last.ret.func # None
           /\ last.ret.arr = <<>>

----------------------------------------------------------------------------
(* Specification of register_field with its targets *)

MaxList == 2

\* the containernames argument: None, a string, a list of strings, or a
\* value of another type
NamesNone == [kind |-> "None", names |-> <<>>]
NamesStr(c) == [kind |-> "str", names |-> <<c>>]
NamesList(cs) == [kind |-> "list", names |-> cs]
NamesOther == [kind |-> "other", names |-> <<>>]

ContainerNames ==
    {NamesNone, NamesOther, NamesStr("all")}
        \cup {NamesStr(c) : c \in Keys}
        \cup {NamesList(cs) : cs \in UNION {[1..n -> Keys] : n \in 0..MaxList}}

\* the name argument of register_field, and the generators decorated
RegisterNames == {None, "a"}
RegisterFuncs == {"gen_ok"}

\* func.__name__
__name__(func) == func

\* the elements of a list
Elements(cs) == {cs[i] : i \in 1..Len(cs)}

\* targets with "all" taken to include the container itself
targets_withself(containernames) ==
    IF containernames.kind = "list"
    THEN IF Elements(containernames.names) \subseteq DOMAIN containers
         THEN [raise |-> "", self |-> FALSE, all |-> FALSE,
               children |-> Elements(containernames.names)]
         ELSE [raise |-> "KeyError", self |-> FALSE, all |-> FALSE, children |-> {}]
    ELSE IF containernames = NamesStr("all")
    THEN [raise |-> "", self |-> TRUE, all |-> TRUE, children |-> {}]
    ELSE IF containernames.kind = "None"
    THEN [raise |-> "", self |-> TRUE, all |-> FALSE, children |-> {}]
    ELSE IF containernames.kind = "str"
    THEN IF containernames.names[1] \in DOMAIN containers
         THEN [raise |-> "", self |-> FALSE, all |-> FALSE,
               children |-> {containernames.names[1]}]
         ELSE [raise |-> "KeyError", self |-> FALSE, all |-> FALSE, children |-> {}]
    ELSE [raise |-> "ValueError: Unknown type.", self |-> FALSE, all |-> FALSE,
          children |-> {}]

\* the body of register_field before the decorator is defined: the list
\* `containers` of the containers the recipe will go to.  self: the
\* container itself; all: the view self.containers.values(), read when the
\* decorator runs; children: the children picked by name.
targets(containernames) ==
    IF containernames.kind = "list"
    THEN IF Elements(containernames.names) \subseteq DOMAIN containers
         THEN [raise |-> "", self |-> FALSE, all |-> FALSE,
               children |-> Elements(containernames.names)]
         ELSE [raise |-> "KeyError", self |-> FALSE, all |-> FALSE, children |-> {}]
    ELSE IF containernames = NamesStr("all")
    THEN [raise |-> "", self |-> FALSE, all |-> TRUE, children |-> {}]
    ELSE IF containernames.kind = "None"
    THEN [raise |-> "", self |-> TRUE, all |-> FALSE, children |-> {}]
    ELSE IF containernames.kind = "str"
    THEN IF containernames.names[1] \in DOMAIN containers
         THEN [raise |-> "", self |-> FALSE, all |-> FALSE,
               children |-> {containernames.names[1]}]
         ELSE [raise |-> "KeyError", self |-> FALSE, all |-> FALSE, children |-> {}]
    ELSE [raise |-> "ValueError: Unknown type.", self |-> FALSE, all |-> FALSE,
          children |-> {}]

\* C.register_field(containernames, name): the decorator is returned, or the
\* call raises
RegisterFieldCall(containernames, name) ==
    LET t == targets(containernames) IN
    /\ last' = Record("register_field", name, containernames, {},
                      IF t.raise = "" THEN RetNone ELSE RetRaise(t.raise), RetNone)
    /\ UNCHANGED <<fields, fieldrecipes, containers, aliases, collection>>

\* decorator(func), applied to the decorator that the register_field call
\* just made returned
decorator(func) ==
    /\ last.op = "register_field"
    /\ last.ret = RetNone
    /\ LET t == targets(last.val)
           name == IF last.key = None THEN __name__(func) ELSE last.key
           recipe == DerivedFieldRecipe(name, func, "", None)
           into == IF t.all THEN DOMAIN containers ELSE t.children
       IN /\ fieldrecipes' = IF t.self THEN DictSet(fieldrecipes, name, recipe)
                             ELSE fieldrecipes
          /\ containers' =
                [c \in DOMAIN containers |->
                    IF c \in into
                    THEN [containers[c] EXCEPT
                            !.fieldrecipes = DictSet(containers[c].fieldrecipes, name, recipe)]
                    ELSE containers[c]]
          /\ last' = Record("decorator", name, last.val, {func}, RetNone, RetNone)
    /\ UNCHANGED <<fields, aliases, collection>>

InitRegister ==
    /\ fields = DictSet(EmptyDict, "a", 1)
    /\ fieldrecipes \in {EmptyDict,
                         DictSet(EmptyDict, "a", DerivedFieldRecipe("a", "gen_valueerror", "", None))}
    /\ aliases = DictSet(EmptyDict, "uid", "a")
    /\ containers \in UNION {[S -> {FieldContainer,
                                     Container(DictSet(EmptyDict, "a", 1),
                                               DictSet(EmptyDict, "a",
                                                   DerivedFieldRecipe("a", "gen_valueerror", "", None)))}]
                                : S \in SUBSET Keys}
    /\ collection = FieldContainer
    /\ last = Call0

NextRegister ==
    \/ \E containernames \in ContainerNames, name \in RegisterNames :
            RegisterFieldCall(containernames, name)
    \/ \E func \in RegisterFuncs : decorator(func)

SpecRegister == InitRegister /\ [][NextRegister]_vars

\* the containers a containernames argument names: "self" for the container
\* itself, children by their names
Targeted(containernames) ==
    IF containernames.kind = "None" THEN {"self"}
    ELSE IF containernames = NamesStr("all") THEN DOMAIN containers
    ELSE Elements(containernames.names)

\* C14: applying the function returned by register_field inserts a derived
\* recipe, keyed by the explicit name or else by the generator's own name,
\* into the recipes of exactly the targeted containers (no target: the
\* container itself only; a child name: that child; a list: those children;
\* "all": every child and not the container itself); fields, aliases, the
\* child set and the recipes of untargeted containers stay as they are; a
\* register_field call naming an unknown child raises and registers nothing.
C14_RegistersIntoTargets ==
    [][/\ last'.op = "decorator" =>
            \E func \in RegisterFuncs :
                LET name == IF last.key = None THEN func ELSE last.key
                    T == Targeted(last.val)
                    Registered(old, new) ==
                        /\ DOMAIN new = DOMAIN old \cup {name}
                        /\ new[name].type = FieldType.DERIVED
                        /\ new[name].func = func
                        /\ new[name].name = name
                        /\ \A k \in DOMAIN old \ {name} : new[k] = old[k]
                IN /\ last'.opts = {func}
                   /\ last'.key = name
                   /\ IF "self" \in T /\ last.val.kind = "None"
                      THEN Registered(fieldrecipes, fieldrecipes')
                      ELSE fieldrecipes' = fieldrecipes
                   /\ DOMAIN containers' = DOMAIN containers
                   /\ \A c \in DOMAIN containers :
                        IF c \in T /\ last.val.kind # "None"
                        THEN /\ Registered(containers[c].fieldrecipes,
                                           containers'[c].fieldrecipes)
                             /\ containers'[c].fields = containers[c].fields
                             /\ containers'[c].containers = containers[c].containers
                        ELSE containers'[c] = containers[c]
                   /\ fields' = fields
                   /\ aliases' = aliases
       /\ last'.op = "register_field" =>
            /\ UNCHANGED <<fields, fieldrecipes, containers, aliases>>
            /\ (last'.val.kind \in {"str", "list"}
                    /\ last'.val # NamesStr("all")
                    /\ ~(Elements(last'.val.names) \subseteq DOMAIN containers))
                => last'.ret.kind = "raise"
       /\ (last.op = "register_field" /\ last.ret.kind = "raise") => last'.op # "decorator"
      ]_vars

\* "all" with two children: the recipe is in both and not in the container
C14_Witness ==
    /\ last.op = "decorator"
    /\ last.val = NamesStr("all")
    /\ DOMAIN containers = Keys
    /\ \A c \in Keys : "gen_ok" \in DOMAIN containers[c].fieldrecipes
    /\ "gen_ok" \notin DOMAIN fieldrecipes

----------------------------------------------------------------------------
(* Specification of the table view: fields that are arrays with a shape *)

MaxRows == 2
MaxCols == 2

\* arrays of one and of two dimensions
Arrays ==
    {[shape |-> <<r>>] : r \in 1..MaxRows}
        \cup {[shape |-> <<r, c>>] : r \in 1..MaxRows, c \in 1..MaxCols}

ndim(v) == Len(v.shape)

\* the names fields are stored under
FrameKeys == {"a", "a1"}

\* str(i) for i >= 0
RECURSIVE str(_)
str(i) ==
    IF i < 10 THEN SubSeq("0123456789", i + 1, i + 1)
    ELSE str(i \div 10) \o SubSeq("0123456789", (i % 10) + 1, (i % 10) + 1)

\* the names a table is requested for: field names, field names followed by
\* a column index, a name made of digits, and names of no field
Requests ==
    FrameKeys \cup {b \o str(i) : b \in FrameKeys, i \in 0..MaxCols} \cup {"1", "x", "x1"}

RequestLists == {<<k>> : k \in Requests} \cup {<<k1, k2>> : k1 \in Requests, k2 \in Requests}

\* s.isnumeric()
isnumeric(s) ==
    /\ Len(s) > 0
    /\ \A j \in 1..Len(s) : \E d \in 0..9 : SubSeq(s, j, j) = str(d)

\* int(s) for a string of digits
RECURSIVE int(_)
int(s) ==
    IF Len(s) = 0 THEN 0
    ELSE int(SubSeq(s, 1, Len(s) - 1)) * 10
            + (CHOOSE d \in 0..9 : SubSeq(s, Len(s), Len(s)) = str(d))

\* k[i:] for a negative i
Slice(k, i) == IF -i >= Len(k) THEN k ELSE SubSeq(k, Len(k) + i + 1, Len(k))

\* k.split(sep)[0]: what comes before the first occurrence of sep in k
split0(k, sep) ==
    LET at == {j \in 1..Len(k) : j + Len(sep) - 1 <= Len(k)
                                  /\ SubSeq(k, j, j + Len(sep) - 1) = sep}
    IN IF at = {} THEN k
       ELSE SubSeq(k, 1, (CHOOSE j \in at : \A j2 \in at : j <= j2) - 1)

\* `while k[i:].isnumeric(): i += -1`, from i on: the i the loop ends with,
\* or 1 when the loop never ends (the slice is all of k, and numeric, so
\* that lowering i changes nothing)
RECURSIVE ScanDigits(_, _)
ScanDigits(k, i) ==
    IF ~isnumeric(Slice(k, i)) THEN i
    ELSE IF -i >= Len(k) THEN 1
    ELSE ScanDigits(k, i - 1)

RetTable(dss) ==
    [kind |-> "table", val |-> 0, ref |-> "",
     set |-> {<<n, dss[n][1], dss[n][2]>> : n \in DOMAIN dss}]
RetDiverges == [kind |-> "diverges", val |-> 0, ref |-> "", set |-> {}]

\* the body of the loop of get_dataframe for the requested name k0: the
\* failure it ends by, or dss with the columns it adds.  A column is the
\* pair of the field and the column index, -1 for a whole array of one
\* dimension.
Column(k0, dss) ==
    LET known == k0 \in keys(TRUE, TRUE, FALSE)
        i0 == IF known THEN 0 ELSE ScanDigits(k0, -1)
        i == i0 + 1
        idim == IF known \/ i0 = 1 \/ i = 0 THEN -1 ELSE int(Slice(k0, i))
        k == IF known \/ i0 = 1 \/ i = 0 THEN k0 ELSE split0(k0, Slice(k0, i))
        o == CHOOSE o \in _getitem(k, FALSE, TRUE) : TRUE
        v == o.ret.val
    IN IF ~known /\ i0 = 1 THEN [ret |-> RetDiverges, dss |-> dss]
       ELSE IF ~known /\ i = 0
       THEN [ret |-> RetRaise("ValueError: Field not found"), dss |-> dss]
       ELSE IF o.ret.kind = "raise" THEN [ret |-> o.ret, dss |-> dss]
       ELSE IF o.ret.kind # "value"
       THEN [ret |-> RetRaise("AttributeError"), dss |-> dss]
       ELSE IF ndim(v) > 2 THEN [ret |-> RetRaise("AssertionError"), dss |-> dss]
       ELSE IF idim # -1 /\ ndim(v) <= 1
       THEN [ret |-> RetRaise("ValueError: No second dimensional index"), dss |-> dss]
       ELSE IF idim # -1 /\ idim >= v.shape[2]
       THEN [ret |-> RetRaise("ValueError: Second dimensional index not defined"),
             dss |-> dss]
       ELSE IF ndim(v) > 1
       THEN [ret |-> RetNone,
             dss |-> [n \in (DOMAIN dss)
                              \cup {k \o str(c) : c \in {c \in 0..(v.shape[2] - 1) :
                                                           idim = -1 \/ idim = c}}
                        |-> IF \E c \in 0..(v.shape[2] - 1) :
                                   (idim = -1 \/ idim = c) /\ n = k \o str(c)
                            THEN <<k, CHOOSE c \in 0..(v.shape[2] - 1) :
                                        (idim = -1 \/ idim = c) /\ n = k \o str(c)>>
                            ELSE dss[n]]]
       ELSE [ret |-> RetNone, dss |-> DictSet(dss, k, <<k, -1>>)]

\* get_dataframe(fields) for a list of names: the loop over the names, then
\* the table of the columns collected
RECURSIVE get_dataframe(_, _)
get_dataframe(names, dss) ==
    IF names = <<>> THEN RetTable(dss)
    ELSE LET c == Column(Head(names), dss)
         IN IF c.ret # RetNone THEN c.ret ELSE get_dataframe(Tail(names), c.dss)

\* C.get_dataframe(names)
GetDataframe(names) ==
    /\ last' = Record("get_dataframe", "", names, {}, get_dataframe(names, EmptyDict), RetNone)
    /\ UNCHANGED <<fields, fieldrecipes, containers, aliases, collection>>

\* fieldcount
fieldcount == Cardinality(DOMAIN fields)

\* C.fieldcount
FieldCount ==
    /\ last' = Record("fieldcount", "", 0, {}, RetLen(fieldcount), RetNone)
    /\ UNCHANGED <<fields, fieldrecipes, containers, aliases, collection>>

\* fieldlength: next() on the iterator of an empty dictionary raises
\* StopIteration; otherwise the first dimension of the first field when all
\* fields have it, else None
fieldlength ==
    IF DOMAIN fields = {} THEN {RetRaise("StopIteration")}
    ELSE {IF \A k \in DOMAIN fields : fields[k].shape[1] = fields[first].shape[1]
          THEN RetLen(fields[first].shape[1]) ELSE RetNone : first \in DOMAIN fields}

\* C.fieldlength
FieldLength ==
    \E ret \in fieldlength :
        /\ last' = Record("fieldlength", "", 0, {}, ret, RetNone)
        /\ UNCHANGED <<fields, fieldrecipes, containers, aliases, collection>>

NextFrame ==
    \/ \E key \in FrameKeys, arr \in Arrays : __setitem__(key, ArrayValue(arr))
    \/ \E key \in FrameKeys : DelItem(key)
    \/ \E names \in RequestLists : GetDataframe(names)
    \/ FieldCount
    \/ FieldLength

SpecFrame == Init /\ [][NextFrame]_vars

----------------------------------------------------------------------------
(* C11: the uniform length *)

\* C11: fieldlength never raises; it returns N when every field has first
\* dimension N and None when two fields disagree.
C11_FieldLengthNeverRaises ==
    last.op = "fieldlength"
        => /\ last.ret.kind # "raise"
           /\ \A N \in 1..MaxRows :
                (\A k \in DOMAIN fields : fields[k].shape[1] = N) => last.ret = RetLen(N)
           /\ (\E k1 \in DOMAIN fields, k2 \in DOMAIN fields :
                    fields[k1].shape[1] # fields[k2].shape[1]) => last.ret = RetNone

----------------------------------------------------------------------------
(* C12: one column of a field of two dimensions *)

\* C12: for every field b of two dimensions with n columns and every index
\* i, get_dataframe([b + str(i)]) returns the table of the one column named
\* b + str(i) that is column i of b when i < n, and raises the ValueError of
\* a missing or undefined second index when i >= n.
C12_ColumnOfBasename ==
    \A b \in DOMAIN fields : \A i \in 0..MaxCols :
        (/\ last.op = "get_dataframe"
         /\ last.val = <<b \o str(i)>>
         /\ ndim(fields[b]) = 2)
        => IF i < fields[b].shape[2]
           THEN last.ret = RetTable(DictSet(EmptyDict, b \o str(i), <<b, i>>))
           ELSE /\ last.ret.kind = "raise"
                /\ last.ret.ref \in {"ValueError: Field not found",
                                     "ValueError: No second dimensional index",
                                     "ValueError: Second dimensional index not defined"}

----------------------------------------------------------------------------
(* C18: requested names that name nothing *)

\* the name is a key that keys() lists, or a field of two dimensions
\* followed by the index of one of its columns
Requestable(k) ==
    \/ k \in keys(TRUE, TRUE, FALSE)
    \/ \E b \in DOMAIN fields :
            /\ ndim(fields[b]) = 2
            /\ \E i \in 0..(fields[b].shape[2] - 1) : k = b \o str(i)

\* C18: get_dataframe ends for every list of names, and when one of the
\* names is not requestable the call raises a ValueError: it raises no
\* KeyError, does not loop, and returns no table.
C18_UnknownNameIsValueError ==
    last.op = "get_dataframe"
        => /\ last.ret.kind # "diverges"
           /\ (\E j \in 1..Len(last.val) : ~Requestable(last.val[j]))
                => /\ last.ret.kind = "raise"
                   /\ last.ret.ref \in {"ValueError: Field not found",
                                        "ValueError: No second dimensional index",
                                        "ValueError: Second dimensional index not defined"}

----------------------------------------------------------------------------
(* Specification of the keyword arguments a generator is called with *)

\* a parameter of a generator, after the first one that receives the
\* container: it can be passed by position or by keyword, or by keyword
\* only; its default is missing ("empty"), None, or a value of its own
ParamKinds == {"POSITIONAL_OR_KEYWORD", "KEYWORD_ONLY"}
ParamDefaults == {"empty", None, "own"}
ParamNames == {"n", "m"}

Params == [kind : ParamKinds, default : ParamDefaults]

\* the generators: their declared parameters, and whether they take **kwargs
Signatures ==
    {[params |-> ps, varkw |-> kw] :
        ps \in UNION {[S -> Params] : S \in SUBSET ParamNames}, kw \in BOOLEAN}

\* the values of fieldrecipes_kwargs: the defaults of the container
RecipeKwargs == UNION {[S -> {"default"}] : S \in SUBSET (ParamNames \cup {"z"})}

\* get_kwargs(func): the parameters that have a default, with their defaults
get_kwargs(func) ==
    [k \in {k \in DOMAIN func.params : func.params[k].default # "empty"}
        |-> func.params[k].default]

\* inspect.getfullargspec(func).args: the names of the parameters that can
\* be passed by position; keyword-only parameters are not among them
getfullargspec_args(func) ==
    {"self"} \cup {k \in DOMAIN func.params : func.params[k].kind = "POSITIONAL_OR_KEYWORD"}

\* inspect.getfullargspec(func).varkw is not None
accept_kwargs(func) == func.varkw

\* the dictionary kwargs that _getitem builds for func(self, **kwargs)
kwargs(func, dkwargs) ==
    LET func_kwargs == get_kwargs(func)
        first == (DOMAIN dkwargs) \cap {k \in DOMAIN func_kwargs : func_kwargs[k] = None}
        second == IF accept_kwargs(func)
                  THEN {k \in DOMAIN dkwargs : k \notin getfullargspec_args(func)}
                  ELSE {}
    IN [k \in first \cup second |-> dkwargs[k]]

\* the keyword arguments of the generator call of an item read, for a
\* generator func and a container whose fieldrecipes_kwargs is dkwargs
BuildKwargs(func, dkwargs) ==
    /\ last' = Record("kwargs", "", [func |-> func, fieldrecipes_kwargs |-> dkwargs], {},
                      kwargs(func, dkwargs), RetNone)
    /\ UNCHANGED <<fields, fieldrecipes, containers, aliases, collection>>

NextKwargs == \E func \in Signatures, dkwargs \in RecipeKwargs : BuildKwargs(func, dkwargs)

SpecKwargs == Init /\ [][NextKwargs]_vars

----------------------------------------------------------------------------
(* C16: the keyword arguments *)

\* C16: the keyword arguments are exactly the declared parameters whose own
\* default is None and whose name is among the container's defaults, and,
\* only when the generator takes **kwargs, the container's defaults whose
\* name is no declared parameter; each is bound to the container's default.
\* So a declared parameter with a default of its own is never given the
\* container's default, and a generator without **kwargs never receives an
\* undeclared name.
C16_KwargsBinding ==
    last.op = "kwargs" =>
        LET func == last.val.func
            dkwargs == last.val.fieldrecipes_kwargs
            declared == DOMAIN func.params
        IN /\ DOMAIN last.ret
                = {k \in declared : func.params[k].default = None /\ k \in DOMAIN dkwargs}
                    \cup (IF func.varkw THEN (DOMAIN dkwargs) \ declared ELSE {})
           /\ \A k \in DOMAIN last.ret : last.ret[k] = dkwargs[k]
           /\ \A k \in declared : func.params[k].default = "own" => k \notin DOMAIN last.ret
           /\ ~func.varkw => DOMAIN last.ret \subseteq declared

====
